---- MODULE Spec2Model ----
(***************************************************************************)
(* Model of the gym simulator of exercise 06 (src/unnamed/part_000):       *)
(* the classes GymMember and Gym, their JSON persistence through           *)
(* saveToFile / loadFromFile, and the file system they read and write.     *)
(* Further parts: GymEquipment of exercise 05, the copy button of           *)
(* IncidentReport / DecisionRecord, SettingsPanel and AgentResults.        *)
(***************************************************************************)
EXTENDS Integers, Sequences, FiniteSets, TLC

VARIABLES
    name,           \* Gym.name
    nextMemberId,   \* Gym.nextMemberId
    members,        \* Gym.members: a Map, kept as its entries in insertion order
    files,          \* the file system: path -> what is stored there
    op,             \* the operation that ran last
    console,        \* the kind of message that operation logged last
    thrown,         \* TRUE when that operation let an exception reach its caller
    ret,            \* the value addMember returned last (Num(0) before any call)
    result,         \* what the last call returned, when it was getSummary or getMember
    snapshot,       \* the array getAllMembers returned last, as the caller holds it
    equipment,      \* the GymEquipment objects of exercise 05, by the variable that holds them
    transitions,    \* per equipment: how often it went from available to in use

    \* the copy button of IncidentReport / DecisionRecord (src/unnamed/part_002)
    component,      \* which of the two components is mounted ("none": neither)
    clipboard,      \* TRUE when navigator.clipboard exists in this page
    isCopied,       \* the isCopied state of the mounted component
    timers,         \* pending setTimeout callbacks, oldest first: ms left until due
    sinceClick,     \* ms since the last copy click, counted up to CopiedMs
    clicks,         \* copy clicks so far
    \* SettingsPanel (src/frontend/src/components/SettingsPanel.tsx)
    useLLM,             \* prop
    useAgent,           \* prop
    isPromptExpanded,   \* state
    isReviewingIssues,  \* state
    reviewStarted,      \* state
    inFlight,           \* POST /api/review-issues requests sent and not yet settled
    reviews,            \* issue reviews started so far
    \* AgentResults (src/frontend/src/components/AgentResults.tsx)
    props,              \* the props the component is rendered with
    view                \* what it returned

gymVars == <<name, nextMemberId, members, files, ret, snapshot>>
equipmentVars == <<equipment, transitions>>
copyVars == <<component, clipboard, isCopied, timers, sinceClick, clicks>>
reviewVars == <<useLLM, useAgent, isPromptExpanded, isReviewingIssues,
                reviewStarted, inFlight, reviews>>
resultsVars == <<props, view>>
frontendVars == <<copyVars, reviewVars, resultsVars>>
vars == <<name, nextMemberId, members, files, op, console, thrown, ret,
          result, snapshot, equipmentVars, frontendVars>>

(***************************************************************************)
(* Bounds of the model.                                                    *)
(***************************************************************************)
MaxId == 3          \* addMember is called only while a numeric nextMemberId < MaxId
MaxWorkouts == 2    \* logWorkout is called only while the registry holds fewer records
MaxUses == 3        \* checkOut is called only while usesToday is smaller
MaxClicks == 3      \* the copy button is clicked at most this often
MaxReviews == 3     \* the review button starts at most this many reviews
MaxTools == 2       \* toolCalls and results have at most this many elements

(***************************************************************************)
(* JavaScript values held where the code expects a number or a string: a   *)
(* finite integer, +/-Infinity, NaN, a string, and undefined (the value of  *)
(* a property that does not exist); JSON adds null.                        *)
(***************************************************************************)
Num(n) == [k |-> "num", v |-> n]
Infinity == [k |-> "inf", v |-> 1]
NaN == [k |-> "nan", v |-> 0]
JsonNull == [k |-> "null", v |-> 0]
JsUndefined == [k |-> "undefined", v |-> 0]
Str(s) == [k |-> "string", v |-> s]

Sign(n) == IF n > 0 THEN 1 ELSE IF n < 0 THEN -1 ELSE 0

\* a * b on JavaScript numbers; 0 and -0 are one value here (they are equal
\* under === and JSON.stringify writes both as 0)
JsMul(a, b) ==
    IF a.k = "nan" \/ b.k = "nan" THEN NaN
    ELSE IF a.k = "num" /\ b.k = "num" THEN Num(a.v * b.v)
    ELSE IF Sign(a.v) * Sign(b.v) = 0 THEN NaN
    ELSE [k |-> "inf", v |-> Sign(a.v) * Sign(b.v)]

\* a + b on JavaScript numbers; null is converted to 0
JsAdd(a, b) ==
    LET x == IF a.k = "null" THEN Num(0) ELSE a
        y == IF b.k = "null" THEN Num(0) ELSE b
    IN  IF x.k = "nan" \/ y.k = "nan" THEN NaN
        ELSE IF x.k = "num" /\ y.k = "num" THEN Num(x.v + y.v)
        ELSE IF x.k = "inf" /\ y.k = "inf"
             THEN IF x.v = y.v THEN x ELSE NaN
        ELSE IF x.k = "inf" THEN x ELSE y

\* JSON.stringify of a property that holds a number: a non-finite number is
\* written as null, and a property that holds undefined is left out (read
\* back as undefined)
StringifyNum(x) ==
    IF x.k = "num" THEN x
    ELSE IF x.k = "undefined" THEN JsUndefined
    ELSE JsonNull


\* JSON.parse of a number token or null: the value as it was written
ParseNum(x) == x

(***************************************************************************)
(* Strings and object keys.  A number used as a property key is converted *)
(* to its decimal string; parseInt reads the integer a string starts with. *)
(* Integers are exact below 2^31 here (2^53 in JavaScript).                *)
(***************************************************************************)
Digits == <<"0", "1", "2", "3", "4", "5", "6", "7", "8", "9">>

RECURSIVE NumToStr(_)
NumToStr(n) ==
    IF n < 10 THEN Digits[n + 1]
    ELSE NumToStr(n \div 10) \o Digits[(n % 10) + 1]

\* `${x}` and String(x) of a JavaScript number
NumberToString(x) ==
    IF x.k = "nan" THEN "NaN"
    ELSE IF x.k = "null" THEN "null"
    ELSE IF x.k = "undefined" THEN "undefined"
    ELSE IF x.k = "inf" THEN (IF x.v > 0 THEN "Infinity" ELSE "-Infinity")
    ELSE IF x.v < 0 THEN "-" \o NumToStr(-x.v)
    ELSE NumToStr(x.v)

\* the i-th character of a string
CharAt(s, i) == SubSeq(s, i, i)

\* the characters parseInt skips at the start of its argument: space, tab,
\* line feed, carriage return, form feed, then, written as the characters
\* themselves, vertical tab U+000B, U+00A0, U+FEFF and U+1680.  The other
\* white space of JavaScript (U+2000 to U+200A, U+2028, U+2029, U+202F,
\* U+205F, U+3000) cannot appear in a string of this module, so no key of
\* the model holds it.
WhiteSpace == {" ", "\t", "\n", "\r", "\f", "", " ", "﻿", " "}

\* the characters that stand for the digit d - 1, for d in 1..16
DigitChars ==
    <<{"0"}, {"1"}, {"2"}, {"3"}, {"4"}, {"5"}, {"6"}, {"7"}, {"8"}, {"9"},
      {"a", "A"}, {"b", "B"}, {"c", "C"}, {"d", "D"}, {"e", "E"}, {"f", "F"}>>
IsDigit(c, radix) == \E d \in 1..radix : c \in DigitChars[d]
DigitValue(c) == (CHOOSE d \in 1..16 : c \in DigitChars[d]) - 1

\* the position of the first character of s from i on that is not white space
RECURSIVE SkipWhiteSpace(_, _)
SkipWhiteSpace(s, i) ==
    IF i <= Len(s) /\ CharAt(s, i) \in WhiteSpace THEN SkipWhiteSpace(s, i + 1)
    ELSE i

\* the digits of s from position i on, up to the first character that is
\* not a digit of the radix: whether there were any, and their value
RECURSIVE ReadDigits(_, _, _, _)
ReadDigits(s, i, radix, acc) ==
    IF i <= Len(s) /\ IsDigit(CharAt(s, i), radix)
    THEN ReadDigits(s, i + 1, radix,
                    [read |-> TRUE, n |-> acc.n * radix + DigitValue(CharAt(s, i))])
    ELSE acc

\* parseInt(s): leading white space, an optional sign, an optional 0x or 0X
\* that selects radix 16, then the longest run of digits; NaN when there is
\* no digit.  -0 and 0 are one value here.
ParseInt(s) ==
    LET start == SkipWhiteSpace(s, 1)
        signed == start <= Len(s) /\ CharAt(s, start) \in {"+", "-"}
        negative == signed /\ CharAt(s, start) = "-"
        body == IF signed THEN start + 1 ELSE start
        hex == /\ body + 1 <= Len(s)
               /\ CharAt(s, body) = "0"
               /\ CharAt(s, body + 1) \in {"x", "X"}
        none == [read |-> FALSE, n |-> 0]
        digits == IF hex THEN ReadDigits(s, body + 2, 16, none)
                  ELSE ReadDigits(s, body, 10, none)
    IN  IF ~digits.read THEN NaN
        ELSE Num(IF negative THEN -digits.n ELSE digits.n)

\* a < b for two strings of decimal digits of the same length, from position i on
RECURSIVE DigitsBefore(_, _, _)
DigitsBefore(a, b, i) ==
    IF i > Len(a) THEN FALSE
    ELSE IF CharAt(a, i) = CharAt(b, i) THEN DigitsBefore(a, b, i + 1)
    ELSE DigitValue(CharAt(a, i)) < DigitValue(CharAt(b, i))

\* numeric order of two canonical decimal strings
IndexBefore(a, b) ==
    Len(a) < Len(b) \/ (Len(a) = Len(b) /\ DigitsBefore(a, b, 1))

\* an array index: the canonical decimal string of an integer in 0..2^32 - 2
MaxArrayIndex == "4294967294"
IsArrayIndex(key) ==
    /\ Len(key) >= 1
    /\ \A i \in 1..Len(key) : IsDigit(CharAt(key, i), 10)
    /\ Len(key) = 1 \/ CharAt(key, 1) # "0"
    /\ key = MaxArrayIndex \/ IndexBefore(key, MaxArrayIndex)

(***************************************************************************)
(* A JavaScript object used as a dictionary: its properties, each a key    *)
(* and a value, in the order they were created.                            *)
(***************************************************************************)
ObjectKeys(obj) == {obj[i].key : i \in 1..Len(obj)}
ObjectHas(obj, key) == key \in ObjectKeys(obj)
\* obj[key]: undefined when there is no such property
ObjectGet(obj, key) ==
    IF ObjectHas(obj, key)
    THEN obj[CHOOSE i \in 1..Len(obj) : obj[i].key = key].val
    ELSE [t |-> "undefined"]
\* obj[key] = val: a new property goes last, an existing one keeps its place
ObjectSet(obj, key, val) ==
    IF ObjectHas(obj, key)
    THEN [obj EXCEPT ![CHOOSE i \in 1..Len(obj) : obj[i].key = key] =
                         [key |-> key, val |-> val]]
    ELSE Append(obj, [key |-> key, val |-> val])

\* a set of array-index keys in ascending numeric order
RECURSIVE KeysAscending(_)
KeysAscending(S) ==
    IF S = {} THEN <<>>
    ELSE LET first == CHOOSE key \in S :
                          \A other \in S \ {key} : IndexBefore(key, other)
         IN  <<first>> \o KeysAscending(S \ {first})

\* the order in which for-in and JSON.stringify visit the properties:
\* array-index keys ascending, then the other keys in creation order
OwnKeys(obj) ==
    LET created == [i \in 1..Len(obj) |-> obj[i].key]
        IsOther(key) == ~IsArrayIndex(key)
    IN  KeysAscending({key \in ObjectKeys(obj) : IsArrayIndex(key)})
            \o SelectSeq(created, IsOther)

(***************************************************************************)
(* Map<number, GymMember>: entries in insertion order.  A key is a         *)
(* JavaScript number: Num(n) or NaN (Map.set and Map.get match NaN to NaN).*)
(***************************************************************************)
MapKeys(m) == {m[i].id : i \in 1..Len(m)}
MapHas(m, id) == id \in MapKeys(m)
MapGet(m, id) == (CHOOSE i \in 1..Len(m) : m[i].id = id)
MapValue(m, id) == m[MapGet(m, id)].m
\* Map.clear
MapClear(m) == <<>>
\* Map.set: a new key goes last, an existing key keeps its position
MapSetEveryEntry(m, id, val) ==
    IF MapHas(m, id)
    THEN [i \in 1..Len(m) |-> [id |-> m[i].id, m |-> val]]
    ELSE Append(m, [id |-> id, m |-> val])
MapSet(m, id, val) ==
    IF MapHas(m, id)
    THEN [m EXCEPT ![MapGet(m, id)] = [id |-> id, m |-> val]]
    ELSE Append(m, [id |-> id, m |-> val])

(***************************************************************************)
(* GymMember                                                               *)
(***************************************************************************)
NewGymMemberDefaultName(n, id) ==
    [name |-> IF n = "" THEN "Member" ELSE n, membershipId |-> id,
     workouts |-> <<>>, totalVisits |-> 0]
NewGymMember(n, id) ==
    [name |-> n, membershipId |-> id, workouts |-> <<>>, totalVisits |-> 0]

MakeWorkoutNoWeight(date, exercise, sets, reps, weight) ==
    [date |-> date, exercise |-> exercise, sets |-> sets, reps |-> reps,
     weight |-> weight, volume |-> JsMul(sets, reps)]
MakeWorkout(date, exercise, sets, reps, weight) ==
    [date |-> date, exercise |-> exercise, sets |-> sets, reps |-> reps,
     weight |-> weight, volume |-> JsMul(JsMul(sets, reps), weight)]

MemberLogWorkoutOverwrites(m, date, exercise, sets, reps, weight) ==
    [m EXCEPT !.workouts = <<MakeWorkout(date, exercise, sets, reps, weight)>>,
              !.totalVisits = @ + 1]
MemberLogWorkout(m, date, exercise, sets, reps, weight) ==
    [m EXCEPT !.workouts = Append(@, MakeWorkout(date, exercise, sets, reps, weight)),
              !.totalVisits = @ + 1]

\* this.workouts.reduce((sum, w) => sum + w.volume, 0)
RECURSIVE Reduce(_, _, _)
Reduce(workouts, i, sum) ==
    IF i > Len(workouts) THEN sum
    ELSE Reduce(workouts, i + 1, JsAdd(sum, workouts[i].volume))

TotalVolumeOfLast(m) == m.workouts[Len(m.workouts)].volume
TotalVolume(m) == Reduce(m.workouts, 1, Num(0))

\* member.getSummary()
GetSummary(m) ==
    IF Len(m.workouts) = 0
    THEN m.name \o " - No workouts logged yet"
    ELSE m.name \o " - " \o NumToStr(m.totalVisits) \o " visits - "
            \o NumberToString(TotalVolume(m)) \o " lbs total volume"

ToData(m) ==
    [name |-> m.name, membershipId |-> m.membershipId,
     workouts |-> m.workouts, totalVisits |-> m.totalVisits]

FromData(d) ==
    [NewGymMember(d.name, d.membershipId) EXCEPT
        !.workouts = d.workouts, !.totalVisits = d.totalVisits]

(***************************************************************************)
(* JSON text.  A file holds text that is not JSON, the literal null, a     *)
(* JSON value that has none of the properties gymName, nextMemberId and    *)
(* members (a number, a string, a boolean, an array, the object {}), or a  *)
(* document object with a members object; the members of a document are    *)
(* its key and value pairs in the order they are written in the text.  A   *)
(* gymName, nextMemberId or membershipId that is JsUndefined is a property *)
(* the text does not have.                                                 *)
(***************************************************************************)
Garbage == [t |-> "garbage"]
NullText == [t |-> "null"]
\* the text of a value of that kind: "number", "string", "boolean", "array",
\* or "object" for an object without the three properties
ValueText(kind) == [t |-> "value", kind |-> kind]

StringifyWorkout(w) ==
    [date |-> w.date, exercise |-> w.exercise, sets |-> StringifyNum(w.sets),
     reps |-> StringifyNum(w.reps), weight |-> StringifyNum(w.weight),
     volume |-> StringifyNum(w.volume)]

StringifyMember(d) ==
    [t |-> "obj", name |-> d.name, membershipId |-> StringifyNum(d.membershipId),
     workouts |-> [i \in 1..Len(d.workouts) |-> StringifyWorkout(d.workouts[i])],
     totalVisits |-> d.totalVisits]

\* JSON.stringify(data, null, 2) of a GymData: the properties of
\* data.members are written in the order of OwnKeys
Stringify(data) ==
    LET keys == OwnKeys(data.members)
    IN  [t |-> "obj", gymName |-> data.gymName,   \* a string, or undefined: left out
         nextMemberId |-> StringifyNum(data.nextMemberId),
         members |-> [i \in 1..Len(keys) |->
                        [key |-> keys[i],
                         val |-> StringifyMember(ObjectGet(data.members, keys[i]))]]]

ParseWorkout(w) ==
    [date |-> w.date, exercise |-> w.exercise, sets |-> ParseNum(w.sets),
     reps |-> ParseNum(w.reps), weight |-> ParseNum(w.weight),
     volume |-> ParseNum(w.volume)]

ParseMember(j) ==
    IF j.t = "null" THEN j
    ELSE [t |-> "obj", name |-> j.name, membershipId |-> ParseNum(j.membershipId),
          workouts |-> [i \in 1..Len(j.workouts) |-> ParseWorkout(j.workouts[i])],
          totalVisits |-> j.totalVisits]

\* the object a JSON object text denotes, from its i-th pair on: the pairs
\* are set in the order written, so of two pairs with one key the later wins
RECURSIVE ParseObject(_, _, _)
ParseObject(pairs, i, obj) ==
    IF i > Len(pairs) THEN obj
    ELSE ParseObject(pairs, i + 1,
                     ObjectSet(obj, pairs[i].key, ParseMember(pairs[i].val)))

\* JSON.parse(jsonString): a SyntaxError, or the value the text denotes
Parse(text) ==
    IF text.t = "garbage" THEN [err |-> "SyntaxError", data |-> NullText]
    ELSE IF text.t = "null" THEN [err |-> "none", data |-> NullText]
    ELSE IF text.t = "value" THEN [err |-> "none", data |-> text]
    ELSE [err |-> "none",
          data |-> [t |-> "obj", gymName |-> text.gymName,
                    nextMemberId |-> ParseNum(text.nextMemberId),
                    members |-> ParseObject(text.members, 1, <<>>)]]

(***************************************************************************)
(* The file system.                                                        *)
(***************************************************************************)
DataPath == "gym_data.json"
\* "exercise" names a directory
Paths == {DataPath, "exercise"}

Absent == [kind |-> "absent", text |-> Garbage]
Directory == [kind |-> "dir", text |-> Garbage]
File(text) == [kind |-> "file", text |-> text]

\* fs.readFileSync(filename, 'utf8')
ReadFileSync(fs, path) ==
    IF fs[path].kind = "file" THEN [err |-> "none", text |-> fs[path].text]
    ELSE IF fs[path].kind = "dir" THEN [err |-> "EISDIR", text |-> Garbage]
    ELSE [err |-> "ENOENT", text |-> Garbage]

\* fs.writeFileSync(filename, jsonString, 'utf8')
WriteFileSync(fs, path, text) ==
    IF fs[path].kind \in {"file", "absent"}
    THEN [err |-> "none", fs |-> [fs EXCEPT ![path] = File(text)]]
    ELSE [err |-> "EISDIR", fs |-> fs]

(***************************************************************************)
(* Gym                                                                     *)
(***************************************************************************)

\* this.nextMemberId++: the counter is converted to a number first
\* (undefined to NaN, null to 0)
IncrementIdStuck(id) == id
IncrementId(id) ==
    IF id.k = "num" THEN Num(id.v + 1)
    ELSE IF id.k = "null" THEN Num(1)
    ELSE IF id.k = "inf" THEN id
    ELSE NaN

\* data.members[id]: the number id is converted to a property key, so NaN
\* reads the property "NaN" and -1 the property "-1"
MemberProperty(obj, id) == ObjectGet(obj, NumberToString(id))

\* the body of the for-in loop of loadFromFile, from the i-th key on;
\* GymMember.fromData throws a TypeError on null or undefined member data
RECURSIVE LoadMembers(_, _, _, _)
LoadMembers(obj, keys, i, map) ==
    IF i > Len(keys) THEN [err |-> "none", members |-> map]
    ELSE LET id == ParseInt(keys[i])
             memberData == MemberProperty(obj, id)
         IN  IF memberData.t # "obj" THEN [err |-> "TypeError", members |-> map]
             ELSE LoadMembers(obj, keys, i + 1, MapSet(map, id, FromData(memberData)))

\* data.gymName, data.nextMemberId: undefined when data is a value without
\* that property
DataProperty(data, field) == IF data.t = "obj" THEN data[field] ELSE JsUndefined

\* this.nextMemberId = data.nextMemberId
RestoredCounterNeverLower(g, data) ==
    LET restored == DataProperty(data, "nextMemberId")
    IN  IF restored.k = "num" /\ g.nextMemberId.k = "num" /\ restored.v < g.nextMemberId.v
        THEN g.nextMemberId
        ELSE restored
RestoredCounter(g, data) == DataProperty(data, "nextMemberId")

\* the try block of loadFromFile run on registry g: the registry it leaves
\* behind and the error it threw, if any
LoadTry(g, fs, path) ==
    LET read == ReadFileSync(fs, path)
        parsed == Parse(read.text)
    IN  IF read.err # "none" THEN [g |-> g, err |-> read.err]
        ELSE IF parsed.err # "none" THEN [g |-> g, err |-> parsed.err]
        \* null.gymName throws before anything is assigned
        ELSE IF parsed.data.t = "null" THEN [g |-> g, err |-> "TypeError"]
        ELSE LET data == parsed.data
                 \* for-in over undefined visits nothing
                 loop == IF data.t = "obj"
                         THEN LoadMembers(data.members, OwnKeys(data.members),
                                          1, MapClear(g.members))
                         ELSE [err |-> "none", members |-> MapClear(g.members)]
             IN  [g |-> [name |-> DataProperty(data, "gymName"),
                         nextMemberId |-> RestoredCounter(g, data),
                         members |-> loop.members],
                  err |-> loop.err]

\* the message loadFromFile logs last
LoadMessage(err) ==
    IF err = "none" THEN "loaded"
    ELSE IF err = "ENOENT" THEN "not_found"
    ELSE "load_error"

\* whether the catch clause of loadFromFile lets the error out
LoadThrowsUncaught(err) == err # "none"
LoadThrows(err) == FALSE

\* this.members.forEach((member, id) => { membersObj[id] = member.toData(); })
\* from the i-th entry of the Map on
RECURSIVE MembersObj(_, _, _)
MembersObj(map, i, obj) ==
    IF i > Len(map) THEN obj
    ELSE MembersObj(map, i + 1,
                    ObjectSet(obj, NumberToString(map[i].id), ToData(map[i].m)))

\* the GymData object saveToFile builds
SaveData(g) ==
    [gymName |-> g.name, nextMemberId |-> g.nextMemberId,
     members |-> MembersObj(g.members, 1, <<>>)]

\* the try block of saveToFile
SaveTry(g, fs, path) == WriteFileSync(fs, path, Stringify(SaveData(g)))

SaveMessage(err) == IF err = "none" THEN "saved" ELSE "save_error"

SaveThrowsUncaught(err) == err # "none"
SaveThrows(err) == FALSE

\* gym.getMember(memberId): Map.get gives the member, or undefined (found = FALSE)
UndefinedMember == NewGymMember("", JsUndefined)
GetMemberFallsBack(m, id) ==
    IF MapHas(m, id) THEN [found |-> TRUE, m |-> MapValue(m, id)]
    ELSE IF Len(m) > 0 THEN [found |-> TRUE, m |-> m[1].m]
    ELSE [found |-> FALSE, m |-> UndefinedMember]
GetMemberByPosition(m, id) ==
    IF id.k = "num" /\ id.v \in 1..Len(m) THEN [found |-> TRUE, m |-> m[id.v].m]
    ELSE [found |-> FALSE, m |-> UndefinedMember]
GetMember(m, id) ==
    IF MapHas(m, id) THEN [found |-> TRUE, m |-> MapValue(m, id)]
    ELSE [found |-> FALSE, m |-> UndefinedMember]

\* gym.getAllMembers(): Array.from(this.members.values()), a new array of
\* references to the member objects. An element is live while its object is
\* still the one the Map holds under the key id.
GetAllMembersReversed(m) ==
    [i \in 1..Len(m) |-> [id |-> m[Len(m) + 1 - i].id, m |-> m[Len(m) + 1 - i].m,
                          live |-> TRUE]]
GetAllMembers(m) ==
    [i \in 1..Len(m) |-> [id |-> m[i].id, m |-> m[i].m, live |-> TRUE]]

\* the array as its holder reads it: the member objects in order
Elements(arr) == [i \in 1..Len(arr) |-> arr[i].m]

\* members.clear() and members.set(id, other) drop objects from the Map; an
\* array that holds them keeps them
Dropped(arr, ids) ==
    [i \in 1..Len(arr) |->
        IF arr[i].id \in ids THEN [arr[i] EXCEPT !.live = FALSE] ELSE arr[i]]

\* member.logWorkout changes the member object, for every holder of it
Shared(arr, id, val) ==
    [i \in 1..Len(arr) |->
        IF arr[i].live /\ arr[i].id = id THEN [arr[i] EXCEPT !.m = val] ELSE arr[i]]

\* loadFromFile reaches this.members.clear() when the text parses to a
\* value other than null
LoadClears(fs, path) ==
    LET read == ReadFileSync(fs, path)
        parsed == Parse(read.text)
    IN  read.err = "none" /\ parsed.err = "none" /\ parsed.data.t # "null"

\* values a call can return: undefined (void), a string, a member reference
NoResult == [k |-> "undefined"]
StringResult(text) == [k |-> "string", text |-> text]

Gym == [name |-> name, nextMemberId |-> nextMemberId, members |-> members]
NewGym(n) == [name |-> Str(n), nextMemberId |-> Num(1), members |-> <<>>]

(***************************************************************************)
(* Inputs                                                                  *)
(***************************************************************************)
Names == {"Alex", ""}
Dates == {"2025-01-15 10:30"}
Exercises == {"Squat"}
\* sets, reps, weight of a logWorkout call
WorkoutArgs == {<<Num(3), Num(10), Num(135)>>,
                <<Num(0), Num(-5), Infinity>>}

MemberJson(n, id, visits) ==
    [t |-> "obj", name |-> n, membershipId |-> Num(id), workouts |-> <<>>,
     totalVisits |-> visits]

\* "key": val as written in a JSON object
Pair(key, val) == [key |-> key, val |-> val]

\* documents that were not written by saveToFile
DocNullMember ==
    [t |-> "obj", gymName |-> Str("Loaded"), nextMemberId |-> Num(3),
     members |-> <<Pair("1", MemberJson("Sam", 1, 0)), Pair("2", NullText)>>]
DocLowCounter ==
    [t |-> "obj", gymName |-> Str("Loaded"), nextMemberId |-> Num(2),
     members |-> <<Pair("2", MemberJson("Sam", 2, 0))>>]
DocVisits ==
    [t |-> "obj", gymName |-> Str("Loaded"), nextMemberId |-> Num(3),
     members |-> <<Pair("1", MemberJson("Sam", 1, 1))>>]
DocWrongId ==
    [t |-> "obj", gymName |-> Str("Loaded"), nextMemberId |-> Num(3),
     members |-> <<Pair("1", MemberJson("Sam", 2, 0))>>]
\* keys that are not the decimal string of a member identity
DocOddKeys ==
    [t |-> "obj", gymName |-> Str("Loaded"), nextMemberId |-> Num(3),
     members |-> <<Pair("01", MemberJson("Pat", 1, 0)),
                   Pair("NaN", MemberJson("Kim", 2, 0)),
                   Pair("1", MemberJson("Sam", 1, 0))>>]
ForeignTexts == {Garbage, NullText,
                 DocNullMember, DocLowCounter, DocVisits, DocWrongId, DocOddKeys}

TotalWorkouts == LET RECURSIVE Sum(_)
                     Sum(i) == IF i = 0 THEN 0
                               ELSE Len(members[i].m.workouts) + Sum(i - 1)
                 IN  Sum(Len(members))

(***************************************************************************)
(* GymEquipment of exercise 05 (src/exercise/typescript/05_gym_equipment.ts)*)
(***************************************************************************)
\* new GymEquipment(name, weight)
NewGymEquipment(n, weight) ==
    [name |-> n, weight |-> weight, inUse |-> FALSE, usesToday |-> 0]

\* this.checkOut(): the object afterwards and the kind of message logged
EquipmentCheckOutAlwaysCounts(q) ==
    [q |-> [q EXCEPT !.inUse = TRUE, !.usesToday = @ + 1],
     msg |-> IF q.inUse THEN "already in use" ELSE "checked out"]
EquipmentCheckOut(q) ==
    IF q.inUse
    THEN [q |-> q, msg |-> "already in use"]
    ELSE [q |-> [q EXCEPT !.inUse = TRUE, !.usesToday = @ + 1],
          msg |-> "checked out"]

\* this.checkIn()
EquipmentCheckInUncounts(q) ==
    IF ~q.inUse
    THEN [q |-> q, msg |-> "already checked in"]
    ELSE [q |-> [q EXCEPT !.inUse = FALSE, !.usesToday = @ - 1],
          msg |-> "checked back in"]
EquipmentCheckInToggles(q) ==
    IF ~q.inUse
    THEN [q |-> [q EXCEPT !.inUse = TRUE], msg |-> "already checked in"]
    ELSE [q |-> [q EXCEPT !.inUse = FALSE], msg |-> "checked back in"]
EquipmentCheckIn(q) ==
    IF ~q.inUse
    THEN [q |-> q, msg |-> "already checked in"]
    ELSE [q |-> [q EXCEPT !.inUse = FALSE], msg |-> "checked back in"]

\* the fields a method assigns are those of the object it is called on
AssignShared(objects, e, q) ==
    [x \in DOMAIN objects |->
        [objects[x] EXCEPT !.inUse = q.inUse, !.usesToday = q.usesToday]]
Assign(objects, e, q) == [objects EXCEPT ![e] = q]

\* const barbell = ..., const dumbbell = ...
Instances == {"barbell", "dumbbell"}
InitEquipment ==
    /\ equipment = [e \in Instances |->
                       IF e = "barbell" THEN NewGymEquipment("Olympic Barbell", 45)
                       ELSE NewGymEquipment("50lb Dumbbell", 50)]
    /\ transitions = [e \in Instances |-> 0]

\* the count of available-to-in-use transitions after a step on e, read off
\* the inUse flag before and after
Observed(count, e, before, after) ==
    [count EXCEPT ![e] = IF ~before[e].inUse /\ after[e].inUse THEN @ + 1 ELSE @]

(***************************************************************************)
(* The copy button of IncidentReport and DecisionRecord                    *)
(* (src/unnamed/part_002): the two components have the same handleCopy.    *)
(***************************************************************************)
CopiedMs == 2000
\* time advances in steps of a quarter of the delay
TickMs == CopiedMs \div 4
CopyComponents == {"IncidentReport", "DecisionRecord"}

\* useState(false), no timer set, no click yet
UseStateCopy(c, hasClipboard) ==
    /\ component = c
    /\ clipboard = hasClipboard
    /\ isCopied = FALSE
    /\ timers = <<>>
    /\ sinceClick = CopiedMs
    /\ clicks = 0

(***************************************************************************)
(* SettingsPanel (src/frontend/src/components/SettingsPanel.tsx)           *)
(***************************************************************************)
\* the three useState(false) calls, under the props the parent passes
UseStateSettings(llm, agent) ==
    /\ useLLM = llm
    /\ useAgent = agent
    /\ isPromptExpanded = FALSE
    /\ isReviewingIssues = FALSE
    /\ reviewStarted = FALSE
    /\ inFlight = 0
    /\ reviews = 0

\* disabled={isReviewingIssues} of the review button
ReviewButtonNeverDisabled(reviewing) == FALSE
ReviewButtonDisabled(reviewing) == reviewing

\* what the review section renders
ReviewButtonLabel(reviewing) ==
    IF reviewing THEN "Agent Running..." ELSE "Start Issue Review Agent"

\* the system prompt header is rendered under useLLM only
PromptHeaderShown(llm) == llm

\* how a fetch can settle: a response (any HTTP status) or a rejection
Outcomes == {"response", "rejected"}

\* handleReviewIssues after the awaited fetch settled: catch swallows a
\* rejection, finally resets the flag
SettleWithoutCatch(outcome) ==
    IF outcome = "rejected" THEN [reviewing |-> TRUE, thrown |-> TRUE]
    ELSE [reviewing |-> FALSE, thrown |-> FALSE]
Settle(outcome) == [reviewing |-> FALSE, thrown |-> FALSE]

(***************************************************************************)
(* AgentResults (src/frontend/src/components/AgentResults.tsx)             *)
(***************************************************************************)
\* an optional prop: given with a value, or undefined
Given(v) == [def |-> TRUE, v |-> v]
NotGiven(v) == [def |-> FALSE, v |-> v]

\* truthiness of an optional string: undefined and "" are falsy
Truthy(s) == s.def /\ s.v # ""

\* the status line of the tool call at idx: results && results[idx] && ...
\* ("check" and "cross" stand for the two marks the line starts with)
ToolStatusOfFirst(results, idx) ==
    IF results.def /\ Len(results.v) >= 1
    THEN [shown |-> TRUE,
          mark |-> IF results.v[1].status = "success" THEN "check" ELSE "cross",
          status |-> results.v[1].status]
    ELSE [shown |-> FALSE, mark |-> "", status |-> ""]
ToolStatus(results, idx) ==
    IF results.def /\ idx <= Len(results.v)
    THEN [shown |-> TRUE,
          mark |-> IF results.v[idx].status = "success" THEN "check" ELSE "cross",
          status |-> results.v[idx].status]
    ELSE [shown |-> FALSE, mark |-> "", status |-> ""]

\* toolCalls.map((call, idx) => ...)
ToolList(toolCalls, results) ==
    [idx \in 1..Len(toolCalls) |->
        [name |-> toolCalls[idx].name, line |-> ToolStatus(results, idx)]]

\* the four things AgentResults returns
View(kind, text, summaryShown, tools) ==
    [kind |-> kind, text |-> text, summaryShown |-> summaryShown, tools |-> tools]

AgentResultsErrorFirst(p) ==
    IF Truthy(p.error) THEN View("error", p.error.v, FALSE, <<>>)
    ELSE IF p.isProcessing THEN View("processing", "", FALSE, <<>>)
    ELSE IF ~p.toolCalls.def \/ Len(p.toolCalls.v) = 0 THEN View("null", "", FALSE, <<>>)
    ELSE View("results", "", Truthy(p.summary), ToolList(p.toolCalls.v, p.results))
AgentResults(p) ==
    IF p.isProcessing THEN View("processing", "", FALSE, <<>>)
    ELSE IF Truthy(p.error) THEN View("error", p.error.v, FALSE, <<>>)
    ELSE IF ~p.toolCalls.def \/ Len(p.toolCalls.v) = 0 THEN View("null", "", FALSE, <<>>)
    ELSE View("results", "", Truthy(p.summary), ToolList(p.toolCalls.v, p.results))

\* props the component can be given
RECURSIVE SeqsUpTo(_, _)
SeqsUpTo(S, n) ==
    IF n = 0 THEN {<<>>}
    ELSE LET shorter == SeqsUpTo(S, n - 1)
         IN  shorter \cup {Append(q, x) : q \in shorter, x \in S}
OptionalStrings(text) == {NotGiven(""), Given(""), Given(text)}
ToolCallValues == {[name |-> "create_calendar_reminder"]}
ResultValues == {[status |-> "success"], [status |-> "error"]}
PropsValues ==
    [isProcessing : BOOLEAN,
     error : OptionalStrings("Agent failed"),
     summary : OptionalStrings("Summary"),
     toolCalls : {NotGiven(<<>>)} \cup {Given(q) : q \in SeqsUpTo(ToolCallValues, MaxTools)},
     results : {NotGiven(<<>>)} \cup {Given(q) : q \in SeqsUpTo(ResultValues, MaxTools)}]

NotRendered == View("not rendered", "", FALSE, <<>>)
NoProps == [isProcessing |-> FALSE, error |-> NotGiven(""), summary |-> NotGiven(""),
            toolCalls |-> NotGiven(<<>>), results |-> NotGiven(<<>>)]

\* no component is mounted
InitFrontend ==
    /\ UseStateCopy("none", TRUE)
    /\ UseStateSettings(FALSE, FALSE)
    /\ props = NoProps
    /\ view = NotRendered

\* setTimeout(() => setIsCopied(false), 2000)
SetTimeout(pending, ms) == Append(pending, ms)

\* TickMs pass
Elapse(pending) == [i \in 1..Len(pending) |-> pending[i] - TickMs]

(***************************************************************************)
(* State machine                                                           *)
(***************************************************************************)
InitRegistry ==
    /\ name = Str("Iron Paradise")
    /\ nextMemberId = Num(1)
    /\ members = <<>>
    /\ op = "new"
    /\ console = "none"
    /\ thrown = FALSE
    /\ ret = Num(0)
    /\ result = NoResult
    /\ snapshot = <<>>

\* a new Gym beside a file system where DataPath names no file, or a file
\* that holds one of the texts
InitWith(texts) ==
    /\ InitRegistry
    /\ \E start \in {Absent} \cup {File(text) : text \in texts} :
          files = [p \in Paths |-> IF p = DataPath THEN start ELSE Directory]
    /\ InitEquipment
    /\ InitFrontend

\* the file at DataPath may have been put there by anyone
Init == InitWith(ForeignTexts)

\* gym.addMember(n); a counter that is a number is below MaxId.  The counter
\* is undefined after a load of a value without nextMemberId, NaN after an
\* addMember on that, and null after a load of a file saved with a NaN
\* counter
AddMember(n) ==
    /\ nextMemberId.k = "num" => nextMemberId.v < MaxId
    /\ LET memberId == nextMemberId
       IN  /\ nextMemberId' = IncrementId(nextMemberId)
           /\ members' = MapSet(members, memberId, NewGymMember(n, memberId))
           /\ ret' = memberId
           /\ snapshot' = Dropped(snapshot, {memberId})
    /\ op' = "addMember"
    /\ console' = "welcome"
    /\ thrown' = FALSE
    /\ result' = NoResult
    /\ UNCHANGED <<equipmentVars, frontendVars, name, files>>

\* const member = gym.getMember(id); if (member) { member.logWorkout(...) }
LogWorkout(id, date, exercise, args) ==
    /\ TotalWorkouts < MaxWorkouts
    /\ LET member == GetMember(members, Num(id))
           after == MemberLogWorkout(member.m, date, exercise,
                                     args[1], args[2], args[3])
       IN  IF member.found
           THEN /\ members' = MapSet(members, Num(id), after)
                /\ snapshot' = Shared(snapshot, Num(id), after)
                /\ console' = "logged"
           ELSE /\ members' = members
                /\ snapshot' = snapshot
                /\ console' = "none"
    /\ op' = "logWorkout"
    /\ thrown' = FALSE
    /\ result' = NoResult
    /\ UNCHANGED <<equipmentVars, frontendVars, name, nextMemberId, files, ret>>

\* gym.saveToFile(path)
SaveToFile(path) ==
    /\ LET try == SaveTry(Gym, files, path)
       IN  /\ files' = try.fs
           /\ console' = SaveMessage(try.err)
           /\ thrown' = SaveThrows(try.err)
    /\ op' = "saveToFile"
    /\ result' = NoResult
    /\ UNCHANGED <<equipmentVars, frontendVars, name, nextMemberId, members, ret, snapshot>>

\* gym.loadFromFile(path)
LoadFromFile(path) ==
    /\ op' = "loadFromFile"
    /\ LET try == LoadTry(Gym, files, path)
       IN  /\ name' = try.g.name
           /\ nextMemberId' = try.g.nextMemberId
           /\ members' = try.g.members
           /\ console' = LoadMessage(try.err)
           /\ thrown' = LoadThrows(try.err)
    /\ snapshot' = IF LoadClears(files, path)
                   THEN Dropped(snapshot, MapKeys(members))
                   ELSE snapshot
    /\ result' = NoResult
    /\ UNCHANGED <<equipmentVars, frontendVars, files, ret>>

\* gym.getMember(id)?.getSummary() for a member of the registry
GetSummaryCall(id) ==
    /\ MapHas(members, Num(id))
    /\ result' = StringResult(GetSummary(MapValue(members, Num(id))))
    /\ op' = "getSummary"
    /\ console' = "none"
    /\ thrown' = FALSE
    /\ UNCHANGED <<equipmentVars, frontendVars, name, nextMemberId, members, files, ret, snapshot>>

\* gym.getMember(id)
GetMemberCall(id) ==
    /\ result' = LET r == GetMember(members, Num(id))
                 IN  [k |-> "member", found |-> r.found, m |-> r.m]
    /\ op' = "getMember"
    /\ console' = "none"
    /\ thrown' = FALSE
    /\ UNCHANGED <<equipmentVars, frontendVars, name, nextMemberId, members, files, ret, snapshot>>

\* gym.getAllMembers()
GetAllMembersCall ==
    /\ snapshot' = GetAllMembers(members)
    /\ op' = "getAllMembers"
    /\ console' = "none"
    /\ thrown' = FALSE
    /\ result' = NoResult
    /\ UNCHANGED <<equipmentVars, frontendVars, name, nextMemberId, members, files, ret>>

AddMemberStep == \E n \in Names : AddMember(n)
LogWorkoutStep ==
    \E id \in 1..MaxId, date \in Dates, exercise \in Exercises, args \in WorkoutArgs :
        LogWorkout(id, date, exercise, args)
SaveToFileStep == \E path \in Paths : SaveToFile(path)
LoadFromFileStep == \E path \in Paths : LoadFromFile(path)

Next == AddMemberStep \/ LogWorkoutStep \/ SaveToFileStep \/ LoadFromFileStep

Spec == Init /\ [][Next]_vars

\* a registry that is filled by addMember and logWorkout alone
NextNoLoad == AddMemberStep \/ LogWorkoutStep \/ SaveToFileStep
SpecNoLoad == Init /\ [][NextNoLoad]_vars

GetSummaryStep == \E id \in 1..MaxId : GetSummaryCall(id)
GetMemberStep == \E id \in 1..MaxId : GetMemberCall(id)

\* the registry with getSummary asked of its members
NextSummaries == Next \/ GetSummaryStep
\* it starts with no file, or with a file that gives a member visits
\* without workouts
SpecSummaries == InitWith({DocVisits}) /\ [][NextSummaries]_vars

\* the registry of a program that names every member Alex, beside a file that
\* may also hold a JSON value that is not a document: a number, an array
NextValues == AddMember("Alex") \/ LogWorkoutStep \/ SaveToFileStep \/ LoadFromFileStep
SpecValues ==
    /\ InitWith(ForeignTexts \cup {ValueText("number"), ValueText("array")})
    /\ [][NextValues]_vars

\* the registry, filled by addMember, logWorkout and loadFromFile, with its queries
NextQueries ==
    AddMemberStep \/ LogWorkoutStep \/ LoadFromFileStep \/ GetSummaryStep \/ GetMemberStep
SpecQueries == Init /\ [][NextQueries]_vars

\* e.checkOut()
CheckOut(e) ==
    /\ equipment[e].usesToday < MaxUses
    /\ LET call == EquipmentCheckOut(equipment[e])
       IN  /\ equipment' = Assign(equipment, e, call.q)
           /\ console' = call.msg
    /\ transitions' = Observed(transitions, e, equipment, equipment')
    /\ op' = "checkOut"
    /\ thrown' = FALSE
    /\ result' = NoResult
    /\ UNCHANGED <<gymVars, frontendVars>>

\* e.checkIn()
CheckIn(e) ==
    /\ LET call == EquipmentCheckIn(equipment[e])
       IN  /\ equipment' = Assign(equipment, e, call.q)
           /\ console' = call.msg
    /\ transitions' = Observed(transitions, e, equipment, equipment')
    /\ op' = "checkIn"
    /\ thrown' = FALSE
    /\ result' = NoResult
    /\ UNCHANGED <<gymVars, frontendVars>>

CheckOutStep == \E e \in Instances : CheckOut(e)
CheckInStep == \E e \in Instances : CheckIn(e)

\* the equipment program: no Gym is used and no file is read
InitEquipmentProgram ==
    /\ InitRegistry
    /\ files = [p \in Paths |-> IF p = DataPath THEN Absent ELSE Directory]
    /\ InitEquipment
    /\ InitFrontend
NextEquipment == CheckOutStep \/ CheckInStep
SpecEquipment == InitEquipmentProgram /\ [][NextEquipment]_vars

\* a click on the copy button: handleCopy. navigator.clipboard.writeText
\* throws a TypeError when navigator.clipboard is undefined, before any
\* state is set; otherwise its promise is not awaited.
HandleCopy ==
    /\ component \in CopyComponents
    /\ clicks < MaxClicks
    /\ clicks' = clicks + 1
    /\ sinceClick' = 0
    /\ IF clipboard
       THEN /\ isCopied' = TRUE
            /\ timers' = SetTimeout(timers, CopiedMs)
            /\ thrown' = FALSE
       ELSE /\ thrown' = TRUE
            /\ UNCHANGED <<isCopied, timers>>
    /\ op' = "handleCopy"
    /\ console' = "none"
    /\ result' = NoResult
    /\ UNCHANGED <<gymVars, equipmentVars, reviewVars, resultsVars, component, clipboard>>

\* the oldest pending timer is due and its callback runs: setIsCopied(false)
TimerFires ==
    /\ Len(timers) > 0
    /\ timers[1] <= 0
    /\ isCopied' = FALSE
    /\ timers' = Tail(timers)
    /\ op' = "timer"
    /\ console' = "none"
    /\ thrown' = FALSE
    /\ result' = NoResult
    /\ UNCHANGED <<gymVars, equipmentVars, reviewVars, resultsVars, component, clipboard,
                   sinceClick, clicks>>

\* time passes while no timer is due
Tick ==
    /\ component \in CopyComponents
    /\ \A i \in 1..Len(timers) : timers[i] > 0
    /\ Len(timers) > 0 \/ sinceClick < CopiedMs
    /\ timers' = Elapse(timers)
    /\ sinceClick' = IF sinceClick + TickMs < CopiedMs THEN sinceClick + TickMs
                     ELSE CopiedMs
    /\ op' = "tick"
    /\ console' = "none"
    /\ thrown' = FALSE
    /\ result' = NoResult
    /\ UNCHANGED <<gymVars, equipmentVars, reviewVars, resultsVars, component, clipboard,
                   isCopied, clicks>>

\* a page that shows one of the two components
InitCopy ==
    /\ InitRegistry
    /\ files = [p \in Paths |-> IF p = DataPath THEN Absent ELSE Directory]
    /\ InitEquipment
    /\ \E c \in CopyComponents, hasClipboard \in BOOLEAN : UseStateCopy(c, hasClipboard)
    /\ UseStateSettings(FALSE, FALSE)
    /\ props = NoProps
    /\ view = NotRendered
NextCopy == HandleCopy \/ TimerFires \/ Tick
SpecCopy == InitCopy /\ [][NextCopy]_vars
\* the event loop runs a due timer, and time passes
SpecCopyFair == SpecCopy /\ WF_vars(TimerFires) /\ WF_vars(Tick)

\* a click on the review button, which a disabled button does not deliver:
\* handleReviewIssues up to its await
HandleReviewIssues ==
    /\ ~ReviewButtonDisabled(isReviewingIssues)
    /\ reviews < MaxReviews
    /\ isReviewingIssues' = TRUE
    /\ reviewStarted' = TRUE
    /\ inFlight' = inFlight + 1
    /\ reviews' = reviews + 1
    /\ op' = "handleReviewIssues"
    /\ console' = "none"
    /\ thrown' = FALSE
    /\ result' = NoResult
    /\ UNCHANGED <<gymVars, equipmentVars, copyVars, resultsVars, useLLM, useAgent, isPromptExpanded>>

\* the fetch settles and handleReviewIssues runs to its end
FetchSettles(outcome) ==
    /\ inFlight > 0
    /\ inFlight' = inFlight - 1
    /\ isReviewingIssues' = Settle(outcome).reviewing
    /\ thrown' = Settle(outcome).thrown
    /\ op' = outcome
    /\ console' = "none"
    /\ result' = NoResult
    /\ UNCHANGED <<gymVars, equipmentVars, copyVars, resultsVars, useLLM, useAgent,
                   isPromptExpanded, reviewStarted, reviews>>

\* a click on the system prompt header
TogglePrompt ==
    /\ PromptHeaderShown(useLLM)
    /\ isPromptExpanded' = ~isPromptExpanded
    /\ op' = "togglePrompt"
    /\ console' = "none"
    /\ thrown' = FALSE
    /\ result' = NoResult
    /\ UNCHANGED <<gymVars, equipmentVars, copyVars, resultsVars, useLLM, useAgent,
                   isReviewingIssues, reviewStarted, inFlight, reviews>>

\* the parent renders the panel with other props
SetProps(llm, agent) ==
    /\ <<llm, agent>> # <<useLLM, useAgent>>
    /\ useLLM' = llm
    /\ useAgent' = agent
    /\ op' = "props"
    /\ console' = "none"
    /\ thrown' = FALSE
    /\ result' = NoResult
    /\ UNCHANGED <<gymVars, equipmentVars, copyVars, resultsVars, isPromptExpanded,
                   isReviewingIssues, reviewStarted, inFlight, reviews>>

FetchSettlesStep == \E outcome \in Outcomes : FetchSettles(outcome)
SetPropsStep == \E llm \in BOOLEAN, agent \in BOOLEAN : SetProps(llm, agent)

\* a page that shows the SettingsPanel
InitSettings ==
    /\ InitRegistry
    /\ files = [p \in Paths |-> IF p = DataPath THEN Absent ELSE Directory]
    /\ InitEquipment
    /\ UseStateCopy("none", TRUE)
    /\ \E llm \in BOOLEAN, agent \in BOOLEAN : UseStateSettings(llm, agent)
    /\ props = NoProps
    /\ view = NotRendered
NextSettings == HandleReviewIssues \/ FetchSettlesStep \/ TogglePrompt \/ SetPropsStep
SpecSettings == InitSettings /\ [][NextSettings]_vars

\* React calls AgentResults with the current props
RenderAgentResults ==
    /\ view' = AgentResults(props)
    /\ op' = "render"
    /\ console' = "none"
    /\ thrown' = FALSE
    /\ result' = NoResult
    /\ UNCHANGED <<gymVars, equipmentVars, copyVars, reviewVars, props>>

\* the parent passes other props
SetAgentResultsProps(p) ==
    /\ p # props
    /\ op = "render"
    /\ props' = p
    /\ view' = NotRendered
    /\ op' = "props"
    /\ console' = "none"
    /\ thrown' = FALSE
    /\ result' = NoResult
    /\ UNCHANGED <<gymVars, equipmentVars, copyVars, reviewVars>>

SetAgentResultsPropsStep == \E p \in PropsValues : SetAgentResultsProps(p)

\* a page that shows AgentResults under any props
InitAgentResults ==
    /\ InitRegistry
    /\ files = [p \in Paths |-> IF p = DataPath THEN Absent ELSE Directory]
    /\ InitEquipment
    /\ UseStateCopy("none", TRUE)
    /\ UseStateSettings(FALSE, FALSE)
    /\ props \in PropsValues
    /\ view = NotRendered
NextAgentResults == RenderAgentResults \/ SetAgentResultsPropsStep
SpecAgentResults == InitAgentResults /\ [][NextAgentResults]_vars

\* the registry with a caller that keeps the array of getAllMembers
NextSnapshot ==
    AddMemberStep \/ SaveToFileStep \/ LoadFromFileStep \/ GetAllMembersCall
SpecSnapshot == Init /\ [][NextSnapshot]_vars

(***************************************************************************)
(* Properties                                                              *)
(***************************************************************************)
\* the file at path holds a JSON document object
HoldsDocument(path) == files[path].kind = "file" /\ files[path].text.t = "obj"
\* the file at path holds JSON text of a value other than null: a document
\* object, or a value without the properties of one
HoldsValue(path) ==
    files[path].kind = "file" /\ files[path].text.t \in {"obj", "value"}
\* a < b on two values that are numbers, null or undefined, as JavaScript
\* compares them: null is converted to 0 and undefined to NaN, and no
\* comparison with NaN is true
Less(a, b) ==
    LET ToNumber(x) == IF x.k = "null" THEN Num(0)
                       ELSE IF x.k = "undefined" THEN NaN
                       ELSE x
        x == ToNumber(a)
        y == ToNumber(b)
    IN  IF x.k = "nan" \/ y.k = "nan" THEN FALSE
        ELSE IF x.k = y.k THEN x.v < y.v
        ELSE IF x.k = "inf" THEN x.v < 0
        ELSE y.v > 0

\* C1: a loadFromFile that ends with the generic 'Error loading file'
\* message leaves name, nextMemberId and members as they were and lets no
\* exception reach the caller.
C1_GenericFailureLeavesRegistry ==
    [][\A path \in Paths :
          (LoadFromFile(path) /\ console' = "load_error")
              => (Gym' = Gym /\ ~thrown')]_vars

\* C2: in every reachable state nextMemberId is strictly greater than every
\* key of the member mapping.
C2_CounterAboveKeys ==
    \A id \in MapKeys(members) : Less(id, nextMemberId)

\* C3: in every reachable state every member's totalVisits equals the length
\* of its workouts.
C3_VisitsEqualWorkouts ==
    \A i \in 1..Len(members) : members[i].m.totalVisits = Len(members[i].m.workouts)

\* C4: in a registry filled by addMember alone (no loadFromFile), every
\* identity addMember returns is greater than the one it returned before, so
\* the returned identities are strictly increasing and none is returned twice.
C4_IdentitiesIncrease == [][AddMemberStep => Less(ret, ret')]_vars
C4_Witness ==
    /\ op = "addMember" /\ ret = Num(2)
    /\ MapKeys(members) = {Num(1), Num(2)} /\ nextMemberId = Num(3)

\* C5 as stated: across every operation, loadFromFile included, the counter
\* never decreases and no identity is handed out a second time.
C5_CounterNeverDecreases ==
    [][~Less(nextMemberId', nextMemberId) /\ (AddMemberStep => Less(ret, ret'))]_vars
\* C5 amended: outside a loadFromFile whose text parses to a value other
\* than null the counter never decreases under <: addMember raises a numeric
\* counter by exactly one (a counter that is not a number becomes NaN, or 1
\* when it was null), and every other step leaves the counter as it is.  A
\* loadFromFile whose text parses to a value other than null sets the
\* counter to that value's nextMemberId, whatever the counter was:
\* undefined when the value has no such property.
C5_CounterOutsideLoad ==
    [][/\ ~(\E path \in Paths : HoldsValue(path) /\ LoadFromFile(path))
            => /\ AddMemberStep \/ nextMemberId' = nextMemberId
               /\ ~Less(nextMemberId', nextMemberId)
       /\ AddMemberStep
            => nextMemberId' = IF nextMemberId.k = "num" THEN Num(nextMemberId.v + 1)
                               ELSE IF nextMemberId.k = "null" THEN Num(1)
                               ELSE NaN
       /\ \A path \in Paths :
            (HoldsValue(path) /\ LoadFromFile(path))
                => nextMemberId' = IF files[path].text.t = "obj"
                                   THEN files[path].text.nextMemberId
                                   ELSE JsUndefined]_vars
\* the counter was lowered by a load of a document
C5_Witness ==
    op = "loadFromFile" /\ console = "loaded" /\ ~Less(ret, nextMemberId)
       /\ nextMemberId.k = "num" /\ ret.k = "num" /\ ret.v > 0
\* the counter was replaced by undefined, and addMember went on from there
C5_WitnessUndefined ==
    op = "addMember" /\ ret = JsUndefined /\ nextMemberId = NaN
\* a file saved with a NaN counter brought back null, addMember returned
\* null and stored the member under it
C5_WitnessNull ==
    /\ op = "addMember" /\ ret = JsonNull /\ nextMemberId = Num(1)
    /\ MapHas(members, JsonNull) /\ MapValue(members, JsonNull).membershipId = JsonNull

\* C6: after a successful saveToFile of a registry built by addMember and
\* logWorkout alone, loadFromFile of that file into a fresh Gym succeeds and
\* yields the same name, nextMemberId, member keys and members (name,
\* membershipId, totalVisits and workouts, record by record).
C6_RoundTrip ==
    (op = "saveToFile" /\ console = "saved")
        => LET loaded == LoadTry(NewGym("Fresh"), files, DataPath)
           IN  /\ loaded.err = "none"
               /\ loaded.g.name = name
               /\ loaded.g.nextMemberId = nextMemberId
               /\ MapKeys(loaded.g.members) = MapKeys(members)
               /\ \A id \in MapKeys(members) :
                    MapValue(loaded.g.members, id) = MapValue(members, id)

\* C7: loadFromFile on a path where no file exists leaves name, nextMemberId
\* and every member unchanged, logs the not-found message and raises nothing.
C7_MissingFileLeavesRegistry ==
    [][\A path \in Paths :
          (LoadFromFile(path) /\ files[path].kind = "absent")
              => (Gym' = Gym /\ console' = "not_found" /\ ~thrown')]_vars
C7_Witness ==
    /\ op = "loadFromFile" /\ console = "not_found"
    /\ \E i \in 1..Len(members) : Len(members[i].m.workouts) > 0

\* C8: a loadFromFile that succeeds replaces the registry: name and
\* nextMemberId are the document's, and the member mapping holds exactly the
\* document's members, so a member that was only in the old mapping is gone.
\* (A JSON value without the properties of a document has no name, no
\* counter and no members.)
C8_LoadReplaces ==
    [][\A path \in Paths :
          (LoadFromFile(path) /\ console' = "loaded")
              => LET doc == files[path].text
                     pairs == IF doc.t = "obj" THEN doc.members ELSE <<>>
                     docIds == {ParseInt(pairs[j].key) : j \in 1..Len(pairs)}
                 IN  /\ name' = IF doc.t = "obj" THEN doc.gymName ELSE JsUndefined
                     /\ nextMemberId' = IF doc.t = "obj" THEN doc.nextMemberId
                                        ELSE JsUndefined
                     /\ MapKeys(members') = docIds
                     /\ \A id \in MapKeys(members) \ docIds : ~MapHas(members', id)
                     /\ \A j \in 1..Len(pairs) :
                          ToData(MapValue(members', ParseInt(pairs[j].key)))
                              = [name |-> pairs[j].val.name,
                                 membershipId |-> pairs[j].val.membershipId,
                                 workouts |-> pairs[j].val.workouts,
                                 totalVisits |-> pairs[j].val.totalVisits]]_vars
\* C9: saveToFile never raises to the caller and never changes name,
\* nextMemberId or members, whether the write succeeds or fails.
C9_SaveLeavesRegistry ==
    [][SaveToFileStep => (Gym' = Gym /\ ~thrown')]_vars
C9_Witness ==
    /\ op = "saveToFile" /\ console = "save_error"
    /\ \E i \in 1..Len(members) : Len(members[i].m.workouts) > 0

\* C10: logWorkout on a member, with any sets, reps and weight, raises
\* nothing, increases the member's totalVisits by exactly 1 and appends
\* exactly one record at the end of its workouts, with the given sets, reps
\* and weight and with volume = sets * reps * weight.
C10_LogWorkoutAppends ==
    [][\A id \in 1..MaxId, date \in Dates, exercise \in Exercises, args \in WorkoutArgs :
          (LogWorkout(id, date, exercise, args) /\ MapHas(members, Num(id)))
              => LET before == MapValue(members, Num(id))
                     after == MapValue(members', Num(id))
                     last == after.workouts[Len(after.workouts)]
                 IN  /\ ~thrown'
                     /\ after.totalVisits = before.totalVisits + 1
                     /\ Len(after.workouts) = Len(before.workouts) + 1
                     /\ SubSeq(after.workouts, 1, Len(before.workouts)) = before.workouts
                     /\ last.sets = args[1] /\ last.reps = args[2] /\ last.weight = args[3]
                     /\ last.volume = JsMul(JsMul(args[1], args[2]), args[3])]_vars
C10_Witness ==
    /\ op = "logWorkout" /\ console = "logged"
    /\ \E i \in 1..Len(members) :
          LET w == members[i].m.workouts
          IN  /\ Len(w) = 2
              /\ w[2].sets.k = "num" /\ w[2].sets.v <= 0
              /\ w[2].volume = JsMul(JsMul(w[2].sets, w[2].reps), w[2].weight)


\* C11: logging a workout for an identity that is not in the registry gets
\* the absent value from getMember, raises nothing and changes nothing: name,
\* nextMemberId, every member's history and visit counter, and the files.
C11_MissingMemberChangesNothing ==
    [][\A id \in 1..MaxId, date \in Dates, exercise \in Exercises, args \in WorkoutArgs :
          (LogWorkout(id, date, exercise, args) /\ ~MapHas(members, Num(id)))
              => /\ ~GetMember(members, Num(id)).found
                 /\ Gym' = Gym
                 /\ files' = files
                 /\ console' = "none"
                 /\ ~thrown']_vars
C11_Witness ==
    /\ op = "logWorkout" /\ console = "none"
    /\ \E i \in 1..Len(members) : Len(members[i].m.workouts) > 0


\* C13: addMember raises nothing for any name (empty or already in use),
\* returns the counter value held before the call, increases the counter by
\* exactly 1 and stores under the returned identity a new member with that
\* name, no workouts and zero visits; on a newly constructed Gym the n-th
\* call returns n.
C13_AddMemberAllocates ==
    [][\A n \in Names :
          AddMember(n)
              => /\ ~thrown'
                 /\ ret' = nextMemberId
                 /\ nextMemberId' = Num(nextMemberId.v + 1)
                 /\ MapHas(members', ret')
                 /\ MapValue(members', ret')
                       = [name |-> n, membershipId |-> ret',
                          workouts |-> <<>>, totalVisits |-> 0]
                 /\ ret' = Num(Len(members) + 1)]_vars
C13_Witness ==
    /\ op = "addMember" /\ ret = Num(2)
    /\ MapValue(members, Num(1)).name = "" /\ MapValue(members, Num(2)).name = ""
    /\ MapValue(members, Num(2)).workouts = <<>>


\* C15 as stated: across every step, each record of each member of the
\* registry is still in the history kept under that identity, at the same
\* position and with the same fields.
C15_HistoriesAppendOnly ==
    [][\A i \in 1..Len(members) :
          LET id == members[i].id
              w == members[i].m.workouts
          IN  \A k \in 1..Len(w) :
                 /\ MapHas(members', id)
                 /\ Len(MapValue(members', id).workouts) >= k
                 /\ MapValue(members', id).workouts[k] = w[k]]_vars

\* C15 amended: logWorkout, saveToFile, and a loadFromFile that stops before
\* members.clear() (missing file, unreadable path, text that is not JSON,
\* the text null) keep every record of every member at its position with
\* its fields; addMember keeps them for every member stored under a key
\* other than the identity it returns; a loadFromFile whose text parses to
\* a value other than null discards the members of the registry and leaves
\* under each key it stores the history the document holds for that key
\* (no key at all when the value has no members).
C15_AppendOnlyOutsideReplacement ==
    [][/\ ~(\E path \in Paths : HoldsValue(path) /\ LoadFromFile(path))
            => \A i \in 1..Len(members) :
                  LET id == members[i].id
                      w == members[i].m.workouts
                  IN  \/ op' = "addMember" /\ id = ret'
                      \/ \A k \in 1..Len(w) :
                            /\ MapHas(members', id)
                            /\ Len(MapValue(members', id).workouts) >= k
                            /\ MapValue(members', id).workouts[k] = w[k]
       /\ \A path \in Paths :
            (HoldsDocument(path) /\ LoadFromFile(path))
                => \A i \in 1..Len(members') :
                      LET key == NumberToString(members'[i].id)
                          pairs == files[path].text.members
                      IN  \E j \in 1..Len(pairs) :
                             /\ pairs[j].key = key
                             /\ pairs[j].val.t = "obj"
                             /\ members'[i].m.workouts = pairs[j].val.workouts
       /\ \A path \in Paths :
            (HoldsValue(path) /\ ~HoldsDocument(path) /\ LoadFromFile(path))
                => members' = <<>>]_vars
C15_Witness ==
    /\ op = "addMember"
    /\ \E i \in 1..Len(members) :
          members[i].id # ret /\ Len(members[i].m.workouts) = 2


\* C16: logWorkout on one member leaves name, nextMemberId and the set of
\* member keys unchanged, and leaves every other member (history and visit
\* counter included) as it was: a record appended to one history shows up in
\* no other member's history.
C16_LogWorkoutFrame ==
    [][\A id \in 1..MaxId, date \in Dates, exercise \in Exercises, args \in WorkoutArgs :
          LogWorkout(id, date, exercise, args)
              => /\ name' = name
                 /\ nextMemberId' = nextMemberId
                 /\ MapKeys(members') = MapKeys(members)
                 /\ \A other \in MapKeys(members) \ {Num(id)} :
                      /\ MapValue(members', other).workouts
                            = MapValue(members, other).workouts
                      /\ MapValue(members', other).totalVisits
                            = MapValue(members, other).totalVisits
                      /\ MapValue(members', other) = MapValue(members, other)]_vars
C16_Witness ==
    /\ op = "logWorkout" /\ console = "logged"
    /\ \E i, j \in 1..Len(members) :
          /\ i # j
          /\ Len(members[i].m.workouts) = 1
          /\ Len(members[j].m.workouts) = 1
          /\ members[i].m.workouts # members[j].m.workouts


\* C17: in every reachable state each member's membershipId equals the key
\* it is stored under, and no two members of the mapping have the same
\* membershipId.
C17_IdentityIsKey ==
    /\ \A i \in 1..Len(members) : members[i].m.membershipId = members[i].id
    /\ \A i, j \in 1..Len(members) :
          members[i].m.membershipId = members[j].m.membershipId => i = j


\* C12: getSummary returns the 'No workouts logged yet' message exactly when
\* the member has no workout records; otherwise the message holds the visit
\* counter and the sum of the volume fields of all records (a null volume
\* counts 0, a NaN volume makes the sum NaN); the call changes no state.
C12_Summary ==
    [][\A id \in 1..MaxId :
          GetSummaryCall(id)
              => LET m == MapValue(members, Num(id))
                     w == m.workouts
                     RECURSIVE Total(_)
                     Total(k) == IF k = 0 THEN 0 ELSE w[k].volume.v + Total(k - 1)
                 IN  /\ (result' = StringResult(m.name \o " - No workouts logged yet"))
                            <=> (Len(w) = 0)
                     /\ (Len(w) > 0 /\ \A k \in 1..Len(w) : w[k].volume.k \in {"num", "null"})
                            => result' = StringResult(
                                    m.name \o " - " \o NumToStr(m.totalVisits)
                                        \o " visits - " \o NumToStr(Total(Len(w)))
                                        \o " lbs total volume")
                     /\ (\E k \in 1..Len(w) : w[k].volume.k = "nan")
                            => result' = StringResult(
                                    m.name \o " - " \o NumToStr(m.totalVisits)
                                        \o " visits - NaN lbs total volume")
                     /\ Gym' = Gym
                     /\ files' = files
                     /\ snapshot' = snapshot
                     /\ ~thrown']_vars
C12_Witness ==
    /\ op = "getSummary"
    /\ result = StringResult("Alex - 2 visits - 8100 lbs total volume")
    /\ \E i \in 1..Len(members) :
          members[i].m.name = "Alex" /\ Len(members[i].m.workouts) = 2


\* C14: getMember returns the member stored under the given identity when
\* the mapping has that key, and the absent value, without an exception,
\* for every identity that is not a key; the registry, its members and the
\* files are unchanged in both cases.
C14_GetMember ==
    [][\A id \in 1..MaxId :
          GetMemberCall(id)
              => /\ MapHas(members, Num(id))
                      => /\ result'.found
                         /\ \E i \in 1..Len(members) :
                               members[i].id = Num(id) /\ result'.m = members[i].m
                 /\ ~MapHas(members, Num(id)) => ~result'.found
                 /\ ~thrown'
                 /\ Gym' = Gym
                 /\ files' = files
                 /\ snapshot' = snapshot]_vars
C14_Witness ==
    /\ op = "getMember"
    /\ result.k = "member" /\ result.found
    /\ result.m.name = "Sam"
    /\ members[1].id = Num(2) /\ result.m = members[1].m


\* C18: getAllMembers returns exactly the members of the mapping, each once,
\* in the mapping's iteration order, and changes neither the registry nor
\* the files; an array returned earlier keeps its length and its elements
\* across a later addMember or loadFromFile.
C18_GetAllMembers ==
    [][/\ GetAllMembersCall
            => /\ Len(snapshot') = Len(members)
               /\ \A i \in 1..Len(members) :
                     /\ snapshot'[i].id = members[i].id
                     /\ snapshot'[i].m = members[i].m
               /\ Gym' = Gym
               /\ files' = files
               /\ ~thrown'
       /\ (AddMemberStep \/ LoadFromFileStep)
            => Elements(snapshot') = Elements(snapshot)]_vars
C18_Witness ==
    /\ op = "loadFromFile" /\ console = "loaded"
    /\ Len(snapshot) = 2 /\ Len(members) = 1
    /\ snapshot[1].m.name = "Alex" /\ snapshot[2].m.name = ""
    /\ members[1].m.name = "Sam"


\* C19 as stated: every checkOut call increases usesToday of the equipment
\* it is called on by exactly 1.
C19_EveryCheckOutCounts ==
    [][\A e \in Instances :
          CheckOut(e) => equipment'[e].usesToday = equipment[e].usesToday + 1]_vars

\* C19 amended: a checkOut on equipment that is not in use increases its
\* usesToday by exactly 1 and marks it in use; a checkOut on equipment that
\* is already in use leaves usesToday and inUse as they were.
C19_CheckOutCountsWhenAvailable ==
    [][\A e \in Instances :
          CheckOut(e)
              => IF equipment[e].inUse
                 THEN /\ equipment'[e].usesToday = equipment[e].usesToday
                      /\ equipment'[e].inUse
                 ELSE /\ equipment'[e].usesToday = equipment[e].usesToday + 1
                      /\ equipment'[e].inUse]_vars
C19_Witness ==
    /\ op = "checkOut" /\ console = "already in use"
    /\ \E e \in Instances : equipment[e].inUse /\ equipment[e].usesToday = 2

\* C20: a checkOut or checkIn on one instance leaves inUse and usesToday of
\* every other instance unchanged.
C20_InstancesIndependent ==
    [][\A e \in Instances :
          (CheckOut(e) \/ CheckIn(e))
              => \A other \in Instances \ {e} :
                    /\ equipment'[other].inUse = equipment[other].inUse
                    /\ equipment'[other].usesToday = equipment[other].usesToday]_vars
C20_Witness ==
    /\ op = "checkIn" /\ console = "checked back in"
    /\ ~equipment["dumbbell"].inUse /\ equipment["dumbbell"].usesToday = 1
    /\ equipment["barbell"].inUse /\ equipment["barbell"].usesToday = 2


\* C21: a checkOut on equipment that is already in use, and a checkIn on
\* equipment that is not in use, are rejected with their message and leave
\* inUse and usesToday of that equipment unchanged.
C21_RedundantTransitionsRejected ==
    [][\A e \in Instances :
          /\ (CheckOut(e) /\ equipment[e].inUse)
                => /\ equipment'[e].inUse = equipment[e].inUse
                   /\ equipment'[e].usesToday = equipment[e].usesToday
                   /\ console' = "already in use"
          /\ (CheckIn(e) /\ ~equipment[e].inUse)
                => /\ equipment'[e].inUse = equipment[e].inUse
                   /\ equipment'[e].usesToday = equipment[e].usesToday
                   /\ console' = "already checked in"]_vars
C21_Witness ==
    /\ op = "checkIn" /\ console = "already checked in"
    /\ \E e \in Instances : ~equipment[e].inUse /\ equipment[e].usesToday = 1


\* C22: over any sequence of checkOut and checkIn calls, usesToday of an
\* equipment equals the number of its available-to-in-use transitions so
\* far and is at least 1 whenever the equipment is in use; no step decreases
\* it and no checkIn changes it.
C22_UsesCountTransitions ==
    /\ [](\A e \in Instances :
             /\ equipment[e].usesToday = transitions[e]
             /\ equipment[e].inUse => equipment[e].usesToday >= 1)
    /\ [][\A e \in Instances :
             /\ equipment'[e].usesToday >= equipment[e].usesToday
             /\ CheckIn(e) => equipment'[e].usesToday = equipment[e].usesToday]_vars
C22_Witness ==
    /\ op = "checkIn" /\ console = "checked back in"
    /\ \E e \in Instances :
          /\ ~equipment[e].inUse
          /\ equipment[e].usesToday = 3 /\ transitions[e] = 3


\* C23: while fewer than 2000 ms have passed since a copy click, isCopied
\* is true, also when the timer of an earlier click is still pending
\* (stated for pages where the clipboard write does not throw).
C23_CopiedFor2000ms ==
    (component \in CopyComponents /\ clipboard /\ clicks > 0 /\ sinceClick < CopiedMs)
        => isCopied

\* C23, second part: after the clicks have ended isCopied returns to false
\* and stays false.
C23_EventuallyNotCopied == <>[](~isCopied)


\* C24: when the POST of a started review settles, by a response or by a
\* rejection, isReviewingIssues is false again and nothing is thrown;
\* starting a review sets both flags; reviewStarted, once true, stays true.
C24_ReviewEnds ==
    [][/\ \A outcome \in Outcomes :
             FetchSettles(outcome) => ~isReviewingIssues' /\ ~thrown'
       /\ HandleReviewIssues => isReviewingIssues' /\ reviewStarted'
       /\ reviewStarted => reviewStarted']_vars
C24_Witness ==
    /\ op = "rejected"
    /\ ~isReviewingIssues /\ reviewStarted /\ ~thrown
    /\ reviews = 2 /\ inFlight = 0

\* C25: at most one review request is in flight; while one is in flight
\* isReviewingIssues is true, and while isReviewingIssues is true the review
\* button is rendered disabled.
C25_OneRequestInFlight ==
    /\ inFlight <= 1
    /\ inFlight > 0 => isReviewingIssues
    /\ isReviewingIssues => ReviewButtonDisabled(isReviewingIssues)
C25_Witness ==
    /\ op = "handleReviewIssues"
    /\ inFlight = 1 /\ isReviewingIssues /\ reviews = 2
    /\ ReviewButtonLabel(isReviewingIssues) = "Agent Running..."


\* C26: AgentResults returns exactly one view by strict precedence: the
\* processing view when isProcessing is true; otherwise the error view when
\* error is a non-empty string; otherwise nothing when toolCalls is missing
\* or empty; otherwise the results view.
C26_ViewPrecedence ==
    op = "render"
        => LET noTools == ~props.toolCalls.def \/ props.toolCalls.v = <<>>
               hasError == props.error.def /\ props.error.v # ""
           IN  /\ props.isProcessing => view.kind = "processing"
               /\ (~props.isProcessing /\ hasError)
                     => view.kind = "error" /\ view.text = props.error.v
               /\ (~props.isProcessing /\ ~hasError /\ noTools) => view.kind = "null"
               /\ (~props.isProcessing /\ ~hasError /\ ~noTools) => view.kind = "results"
C26_Witness ==
    /\ op = "render" /\ view.kind = "processing"
    /\ props.error = Given("Agent failed")
    /\ props.toolCalls.def /\ Len(props.toolCalls.v) = 2
    /\ props.results.def /\ Len(props.results.v) = 2

\* C27: in the results view every tool call is listed once, in order; the
\* call at index i shows the status of results[i], with a check mark exactly
\* when that status is 'success'; a call whose index has no result shows no
\* status.
C27_ToolStatusByIndex ==
    (op = "render" /\ view.kind = "results")
        => /\ Len(view.tools) = Len(props.toolCalls.v)
           /\ \A i \in 1..Len(view.tools) :
                 /\ view.tools[i].name = props.toolCalls.v[i].name
                 /\ IF props.results.def /\ i \in DOMAIN props.results.v
                    THEN /\ view.tools[i].line.shown
                         /\ view.tools[i].line.status = props.results.v[i].status
                         /\ (view.tools[i].line.mark = "check")
                               <=> (props.results.v[i].status = "success")
                    ELSE ~view.tools[i].line.shown
C27_Witness ==
    /\ op = "render" /\ view.kind = "results"
    /\ Len(view.tools) = 2
    /\ props.results = Given(<<[status |-> "error"]>>)
    /\ view.tools[1].line.shown /\ view.tools[1].line.mark = "cross"
    /\ ~view.tools[2].line.shown

====
